---------------------------- MODULE Spec2Model ----------------------------
(***************************************************************************)
(* Model of the EigenLayer beacon oracle updater (src/src/main.rs).        *)
(*                                                                         *)
(* The process is one forever-loop (main).  Each cycle it                  *)
(*   1. locates the contract's checkpoint by scanning update events        *)
(*      backward from the chain head (get_latest_block_in_contract),       *)
(*   2. reads the head again and decides whether checkpoint + interval is  *)
(*      old enough,                                                        *)
(*   3. fetches the candidate block, looks its timestamp up in the         *)
(*      contract, and sends addTimestamp when the root is zero,            *)
(*   4. sleeps.                                                            *)
(* The chain (head, logs, contract storage) is the environment.            *)
(***************************************************************************)
EXTENDS Integers, Sequences, FiniteSets, TLC

VARIABLES
    head,                 \* chain head block number, as the provider reports it
    events,               \* block numbers holding an EigenLayerBeaconOracleUpdate log
    recorded,             \* timestamps mapped to a non-zero root in the contract
    block_interval,       \* BLOCK_INTERVAL of the environment
    pc,                   \* position of the process
    curr_block,           \* get_latest_block_in_contract: curr_block
    logs,                 \* get_latest_block_in_contract: logs of the last query
    queried,              \* windows <<from, to>> queried by the running search
    loc_result,           \* how get_latest_block_in_contract ended
    loc_value,            \* the block number it returned, when it returned Ok
    contract_curr_block,  \* main: contract_curr_block
    latest_block,         \* main: latest_block
    interval_block_nb,    \* main: interval_block_nb
    interval_block_timestamp,   \* main: interval_block_timestamp
    interval_beacon_block_root, \* main: interval_beacon_block_root (0 = [0; 32])
    eligible,             \* whether this cycle passed the test of line 106
    did,                  \* calls made so far in this cycle: "fetch", "read", "send"
    sent,                 \* number of add_timestamp(...).send() calls of this cycle
    exit,                 \* "none" while running, else how the process ended
    exit_at,              \* the stage at which the process ended
    sends,                \* history: every addTimestamp broadcast, in order
    prev_checkpoint,      \* history: contract_curr_block of the cycle before
    peer                  \* a second instance of the program, when one runs

vars == << head, events, recorded, block_interval, pc, curr_block, logs, queried,
           loc_result, loc_value, contract_curr_block, latest_block,
           interval_block_nb, interval_block_timestamp,
           interval_beacon_block_root, eligible, did, sent, exit, exit_at,
           sends, prev_checkpoint, peer >>

-----------------------------------------------------------------------------
(* Program constants *)

\* const MAX_DISTANCE_TO_FILL: u64 = 7200
MAX_DISTANCE_TO_FILL == 7200

\* the chunk size of the backward search: curr_block - 500, curr_block -= 500
CHUNK == 500

\* latest_block.as_u64() - 5
SAFETY_MARGIN == 5

-----------------------------------------------------------------------------
(* Bounds of the model *)

\* the heads of the model lie at most this many blocks above a chunk boundary
FineSpan == 7

\* the chain grows by at most this many whole chunks
Chunks == 1

\* at most this many broadcast transactions are dropped from the mempool
MaxDropped == 1

\* the log source of a single search holds at most this many update events
MaxLogs == 2

\* the lowest head of the model: one block short of MAX_DISTANCE_TO_FILL
InitHead == MAX_DISTANCE_TO_FILL - 1

\* the chain head never exceeds this block number
MaxHead == InitHead + Chunks * CHUNK + FineSpan

\* the heads the provider reports
Heads == { h \in InitHead .. MaxHead : (h - InitHead) % CHUNK <= FineSpan }

\* the block of the update event that seeded the contract
SeedBlocks ==
    { InitHead - CHUNK, InitHead - CHUNK + 1, InitHead - CHUNK + 3,
      InitHead - 6, InitHead }

\* u64::MAX, the largest BLOCK_INTERVAL that u64::from_str accepts (line 74).
\* A u64 value v below 2^63 is written v and a value v of 2^63 or more is
\* written v - 2^64, so that + and - on these numbers are the wrapping
\* operations of the machine; 18446744073709551615 is written 0 - 1.
MaxU64 == 0 - 1

\* BLOCK_INTERVAL of the environment, lines 73-74
Intervals == { 1, 3, MaxU64 }

-----------------------------------------------------------------------------
(* Arithmetic and the provider's answers *)

\* the value standing for a panic of an arithmetic operation
Panic == 0 - 1

\* the value of a variable of the loop body that is not yet assigned
Unset == 0 - 2

\* U64 - n of ethers' U64 (uint crate): panics on overflow in every build
U64Sub(a, b) == IF a >= b THEN a - b ELSE Panic

\* std::cmp::max
Max(a, b) == IF a >= b THEN a ELSE b

\* the ascending sequence of the block numbers of S
RECURSIVE SortedSeq(_)
SortedSeq(S) ==
    IF S = {} THEN << >>
    ELSE LET m == CHOOSE x \in S : \A y \in S : x <= y
         IN  << m >> \o SortedSeq(S \ {m})

\* provider.get_logs(filter): the matching logs of blocks from..to, ascending
GetLogs(from, to) == SortedSeq({ b \in events : from <= b /\ b <= to })

\* client.get_block(nb).timestamp: 12 s slots after the chain's genesis time
Timestamp(nb) == 1616508000 + 12 * nb

\* a lookup that reports every timestamp as not recorded
RootAlwaysZero(ts) == 0

\* contract.timestamp_to_block_root(ts): 0 stands for [0; 32]
TimestampToBlockRoot(ts) == IF ts \in recorded THEN ts ELSE 0

\* the guard of the while loop, line 31; Panic when the subtraction overflows
LoopGuard(cb) ==
    LET far == U64Sub(cb, MAX_DISTANCE_TO_FILL)
    IN  IF far = Panic THEN Panic ELSE IF cb > far THEN 1 ELSE 0

\* range_start_block one block above the previous window's end
RangeStartExclusive(cb) ==
    LET far  == U64Sub(cb, MAX_DISTANCE_TO_FILL)
        near == U64Sub(cb, CHUNK)
    IN  IF far = Panic \/ near = Panic THEN Panic ELSE Max(far, near) + 1

\* range_start_block, line 32; Panic when a subtraction overflows
RangeStart(cb) ==
    LET far  == U64Sub(cb, MAX_DISTANCE_TO_FILL)
        near == U64Sub(cb, CHUNK)
    IN  IF far = Panic \/ near = Panic THEN Panic ELSE Max(far, near)

\* logs[0].block_number, line 43
PickLog(ls) == ls[1]

\* the u64 value written v is 2^63 or more
Wide(v) == v < 0

\* a < b of two u64 values
U64Less(a, b) == IF Wide(a) = Wide(b) THEN a < b ELSE Wide(b)

\* a + b of two u64 values exceeds u64::MAX
AddOverflows(a, b) ==
    \/ Wide(a) /\ Wide(b)
    \/ Wide(a) # Wide(b) /\ a + b >= 0

\* the outcomes of the test of line 106 for the builds of the program:
\* contract_curr_block + block_interval and latest_block.as_u64() - 5 are
\* native u64 operations.  With overflow checks the cycle panics when the
\* sum exceeds u64::MAX or the head is below 5; without them both results
\* wrap and the wrapped values are compared.
EligibleOutcomes(cp, interval, h) ==
    { IF AddOverflows(cp, interval) \/ h < SAFETY_MARGIN
      THEN "panic"
      ELSE IF U64Less(cp + interval, h - SAFETY_MARGIN)
      THEN "eligible" ELSE "skip",
      IF U64Less(cp + interval, h - SAFETY_MARGIN)
      THEN "eligible" ELSE "skip" }

-----------------------------------------------------------------------------
(* get_latest_block_in_contract, lines 22-52 *)

LocUnchanged ==
    UNCHANGED << head, events, recorded, block_interval, contract_curr_block,
                 latest_block, interval_block_nb, interval_block_timestamp,
                 interval_beacon_block_root, eligible, did, sent, exit,
                 exit_at, sends, prev_checkpoint, peer >>

\* lines 26-30: read the head; `?` returns the provider's error
LocHead(ok) ==
    /\ pc = "loc_head"
    /\ IF ok
       THEN /\ curr_block' = head
            /\ pc' = "loc_guard"
            /\ UNCHANGED << loc_result >>
       ELSE /\ loc_result' = "provider_error"
            /\ pc' = "loc_ret"
            /\ UNCHANGED << curr_block >>
    /\ UNCHANGED << logs, queried, loc_value >>
    /\ LocUnchanged

\* line 31, and lines 49-51 when the guard is false
LocGuard ==
    /\ pc = "loc_guard"
    /\ LET g == LoopGuard(curr_block)
       IN  IF g = Panic
           THEN /\ loc_result' = "panic"
                /\ pc' = "loc_ret"
           ELSE IF g = 1
           THEN /\ pc' = "loc_query"
                /\ UNCHANGED loc_result
           ELSE /\ loc_result' = "not_found"
                /\ pc' = "loc_ret"
    /\ UNCHANGED << curr_block, logs, queried, loc_value >>
    /\ LocUnchanged

\* lines 32-46: one window query, and the step back by one chunk
LocQuery(ok) ==
    /\ pc = "loc_query"
    /\ LET from == RangeStart(curr_block)
           ls   == GetLogs(from, curr_block)
           next == U64Sub(curr_block, CHUNK)
       IN  IF from = Panic
           THEN /\ loc_result' = "panic"
                /\ pc' = "loc_ret"
                /\ UNCHANGED << curr_block, logs, queried, loc_value >>
           ELSE IF ~ok
           THEN /\ loc_result' = "provider_error"
                /\ pc' = "loc_ret"
                /\ queried' = Append(queried, << from, curr_block >>)
                /\ UNCHANGED << curr_block, logs, loc_value >>
           ELSE IF Len(ls) > 0
           THEN /\ loc_result' = "ok"
                /\ loc_value' = PickLog(ls)
                /\ logs' = ls
                /\ queried' = Append(queried, << from, curr_block >>)
                /\ pc' = "loc_ret"
                /\ UNCHANGED curr_block
           ELSE IF next = Panic
           THEN /\ loc_result' = "panic"
                /\ pc' = "loc_ret"
                /\ logs' = ls
                /\ queried' = Append(queried, << from, curr_block >>)
                /\ UNCHANGED << curr_block, loc_value >>
           ELSE /\ curr_block' = next
                /\ logs' = ls
                /\ queried' = Append(queried, << from, curr_block >>)
                /\ pc' = "loc_guard"
                /\ UNCHANGED << loc_result, loc_value >>
    /\ LocUnchanged

-----------------------------------------------------------------------------
(* main, lines 70-140 *)

\* the process ends: a panic, or main returning an error
Exit(how, stage) ==
    /\ pc' = "exited"
    /\ exit' = how
    /\ exit_at' = stage

LocVars == << curr_block, logs, queried, loc_result, loc_value >>

\* lines 81-90: the top of the loop; create_aws_signer panics on failure.
\* The variables of the loop body are fresh in every iteration.
Start(ok) ==
    /\ pc = "start"
    /\ IF ok
       THEN /\ pc' = "loc_head"
            /\ UNCHANGED << exit, exit_at >>
       ELSE Exit("panic", "signer")
    /\ curr_block' = 0
    /\ logs' = << >>
    /\ queried' = << >>
    /\ loc_result' = "none"
    /\ loc_value' = 0
    /\ contract_curr_block' = 0
    /\ latest_block' = 0
    /\ interval_block_nb' = 0
    /\ interval_block_timestamp' = 0
    /\ interval_beacon_block_root' = Unset
    /\ eligible' = FALSE
    /\ did' = {}
    /\ sent' = 0
    /\ UNCHANGED << head, events, recorded, block_interval, sends >>
    /\ prev_checkpoint' = IF contract_curr_block # 0
                          THEN contract_curr_block
                          ELSE prev_checkpoint
    /\ UNCHANGED peer

\* the locator's result taken as the candidate instead of the checkpoint
LocatedAsCandidate ==
    /\ pc = "loc_ret"
    /\ IF loc_result = "ok"
       THEN /\ contract_curr_block' = loc_value + block_interval
            /\ pc' = "main_head"
            /\ curr_block' = 0
            /\ logs' = << >>
            /\ queried' = << >>
            /\ loc_result' = "none"
            /\ loc_value' = 0
            /\ UNCHANGED << exit, exit_at >>
       ELSE /\ Exit("panic", "locate")
            /\ UNCHANGED contract_curr_block
            /\ UNCHANGED LocVars
    /\ UNCHANGED << head, events, recorded, block_interval, latest_block,
                    interval_block_nb, interval_block_timestamp,
                    interval_beacon_block_root, eligible, did, sent, sends >>
    /\ UNCHANGED << prev_checkpoint, peer >>

\* lines 92-95: .await.unwrap() of the locator's result; the locator's own
\* variables are gone once it has returned
Located ==
    /\ pc = "loc_ret"
    /\ IF loc_result = "ok"
       THEN /\ contract_curr_block' = loc_value
            /\ pc' = "main_head"
            /\ curr_block' = 0
            /\ logs' = << >>
            /\ queried' = << >>
            /\ loc_result' = "none"
            /\ loc_value' = 0
            /\ UNCHANGED << exit, exit_at >>
       ELSE /\ Exit("panic", "locate")
            /\ UNCHANGED contract_curr_block
            /\ UNCHANGED LocVars
    /\ UNCHANGED << head, events, recorded, block_interval, latest_block,
                    interval_block_nb, interval_block_timestamp,
                    interval_beacon_block_root, eligible, did, sent, sends >>
    /\ UNCHANGED << prev_checkpoint, peer >>

\* lines 98-111: read the head, print the status line, test the candidate
ReadHead(ok) ==
    /\ pc = "main_head"
    /\ IF ~ok
       THEN /\ Exit("error", "head")
            /\ UNCHANGED << latest_block, eligible, interval_block_nb >>
       ELSE /\ latest_block' = head
            /\ IF U64Sub(head, contract_curr_block) = Panic
               THEN /\ Exit("panic", "status")
                    /\ UNCHANGED << eligible, interval_block_nb >>
               ELSE \E o \in EligibleOutcomes(contract_curr_block, block_interval, head) :
                      IF o = "panic"
                      THEN /\ Exit("panic",
                                   IF AddOverflows(contract_curr_block,
                                                   block_interval)
                                   THEN "candidate" ELSE "margin")
                           /\ UNCHANGED << eligible, interval_block_nb >>
                      ELSE /\ eligible' = (o = "eligible")
                           /\ IF o = "eligible"
                              THEN /\ interval_block_nb' =
                                          contract_curr_block + block_interval
                                   /\ pc' = "get_block"
                              ELSE /\ pc' = "sleep"
                                   /\ UNCHANGED interval_block_nb
                           /\ UNCHANGED << exit, exit_at >>
    /\ UNCHANGED << head, events, recorded, block_interval, contract_curr_block,
                    interval_block_timestamp, interval_beacon_block_root, did,
                    sent, sends >>
    /\ UNCHANGED LocVars
    /\ UNCHANGED << prev_checkpoint, peer >>

\* lines 114-115: get_block(...).await? and interval_block.unwrap()
GetBlock(res) ==
    /\ pc = "get_block"
    /\ did' = did \cup {"fetch"}
    /\ CASE res = "block" ->
              /\ interval_block_timestamp' = Timestamp(interval_block_nb)
              /\ pc' = "lookup"
              /\ UNCHANGED << exit, exit_at >>
         [] res = "none" ->
              /\ Exit("panic", "block")
              /\ UNCHANGED interval_block_timestamp
         [] OTHER ->
              /\ Exit("error", "block")
              /\ UNCHANGED interval_block_timestamp
    /\ UNCHANGED << head, events, recorded, block_interval, contract_curr_block,
                    latest_block, interval_block_nb, interval_beacon_block_root,
                    eligible, sent, sends >>
    /\ UNCHANGED LocVars
    /\ UNCHANGED << prev_checkpoint, peer >>

\* the lookup without the zero test of line 122: it always goes on to send
LookupAlwaysSends(ok) ==
    /\ pc = "lookup"
    /\ did' = did \cup {"read"}
    /\ IF ok
       THEN /\ interval_beacon_block_root' =
                   TimestampToBlockRoot(interval_block_timestamp)
            /\ pc' = "send"
            /\ UNCHANGED << exit, exit_at >>
       ELSE /\ Exit("error", "lookup")
            /\ UNCHANGED interval_beacon_block_root
    /\ UNCHANGED << head, events, recorded, block_interval, contract_curr_block,
                    latest_block, interval_block_nb, interval_block_timestamp,
                    eligible, sent, sends >>
    /\ UNCHANGED LocVars
    /\ UNCHANGED << prev_checkpoint, peer >>

\* lines 116-122: timestamp_to_block_root(...).call().await? and the zero test
Lookup(ok) ==
    /\ pc = "lookup"
    /\ did' = did \cup {"read"}
    /\ IF ok
       THEN /\ interval_beacon_block_root' =
                   TimestampToBlockRoot(interval_block_timestamp)
            /\ pc' = IF interval_beacon_block_root' = 0 THEN "send" ELSE "sleep"
            /\ UNCHANGED << exit, exit_at >>
       ELSE /\ Exit("error", "lookup")
            /\ UNCHANGED interval_beacon_block_root
    /\ UNCHANGED << head, events, recorded, block_interval, contract_curr_block,
                    latest_block, interval_block_nb, interval_block_timestamp,
                    eligible, sent, sends >>
    /\ UNCHANGED LocVars
    /\ UNCHANGED << prev_checkpoint, peer >>

\* lines 123-126: add_timestamp(...).send().await? signs and broadcasts
Send(ok) ==
    /\ pc = "send"
    /\ did' = did \cup {"send"}
    /\ sent' = sent + 1
    /\ IF ok
       THEN /\ sends' = Append(sends, [ ts |-> interval_block_timestamp,
                                        nb |-> interval_block_nb,
                                        status |-> "pending",
                                        block |-> 0 ])
            /\ pc' = "confirm"
            /\ UNCHANGED << exit, exit_at >>
       ELSE /\ Exit("error", "send")
            /\ UNCHANGED sends
    /\ UNCHANGED << head, events, recorded, block_interval, contract_curr_block,
                    latest_block, interval_block_nb, interval_block_timestamp,
                    interval_beacon_block_root, eligible >>
    /\ UNCHANGED LocVars
    /\ UNCHANGED << prev_checkpoint, peer >>

Dropped == Cardinality({ i \in DOMAIN sends : sends[i].status = "dropped" })

SetLast(status, block) ==
    [ sends EXCEPT ![Len(sends)] = [ @ EXCEPT !.status = status, !.block = block ] ]

\* lines 127-135: the pending transaction's .await?
\*   "mined":   the transaction is included in the next block; the contract
\*              stores the root and emits the update event in that block
\*   "dropped": the transaction left the mempool, the receipt is None
\*   "error":   the provider failed while polling
Confirm(res) ==
    /\ pc = "confirm"
    /\ CASE res = "mined" ->
              /\ head < MaxHead
              /\ head' = head + 1
              /\ events' = events \cup {head + 1}
              /\ recorded' = recorded \cup {interval_block_timestamp}
              /\ sends' = SetLast("mined", head + 1)
              /\ pc' = "sleep"
              /\ UNCHANGED << exit, exit_at >>
         [] res = "dropped" ->
              /\ Dropped < MaxDropped
              /\ sends' = SetLast("dropped", 0)
              /\ pc' = "sleep"
              /\ UNCHANGED << head, events, recorded, exit, exit_at >>
         [] OTHER ->
              /\ Exit("error", "confirm")
              /\ sends' = SetLast("unknown", 0)
              /\ UNCHANGED << head, events, recorded >>
    /\ UNCHANGED << block_interval, contract_curr_block, latest_block,
                    interval_block_nb, interval_block_timestamp,
                    interval_beacon_block_root, eligible, did, sent >>
    /\ UNCHANGED LocVars
    /\ UNCHANGED << prev_checkpoint, peer >>

\* line 138: sleep one minute, then the next iteration of the loop
Sleep ==
    /\ pc = "sleep"
    /\ pc' = "start"
    /\ UNCHANGED << head, events, recorded, block_interval, contract_curr_block,
                    latest_block, interval_block_nb, interval_block_timestamp,
                    interval_beacon_block_root, eligible, did, sent, exit,
                    exit_at, sends >>
    /\ UNCHANGED LocVars
    /\ UNCHANGED << prev_checkpoint, peer >>

-----------------------------------------------------------------------------
(* The program with its chain *)

\* the chain grows to a later head; the process sees the head only in the
\* calls that read it (lines 28 and 98) and in the block that mines its
\* transaction, so growth at any other moment is growth before the next of them
HeadAdvance ==
    /\ pc \in { "loc_head", "main_head", "confirm" }
    /\ \E h \in Heads : h > head /\ head' = h
    /\ UNCHANGED << events, recorded, block_interval, pc, contract_curr_block,
                    latest_block, interval_block_nb, interval_block_timestamp,
                    interval_beacon_block_root, eligible, did, sent, exit,
                    exit_at, sends >>
    /\ UNCHANGED LocVars
    /\ UNCHANGED << prev_checkpoint, peer >>

ProcessInit ==
    /\ curr_block = 0
    /\ logs = << >>
    /\ queried = << >>
    /\ loc_result = "none"
    /\ loc_value = 0
    /\ contract_curr_block = 0
    /\ latest_block = 0
    /\ interval_block_nb = 0
    /\ interval_block_timestamp = 0
    /\ interval_beacon_block_root = Unset
    /\ eligible = FALSE
    /\ did = {}
    /\ sent = 0
    /\ exit = "none"
    /\ exit_at = "none"
    /\ sends = << >>
    /\ prev_checkpoint = 0

\* the state of an instance of the program that is at position p and has
\* assigned none of the variables of its loop body
Instance(p) ==
    [ pc |-> p, curr_block |-> 0, contract_curr_block |-> 0,
      latest_block |-> 0, interval_block_nb |-> 0,
      interval_block_timestamp |-> 0,
      interval_beacon_block_root |-> Unset, sent |-> {} ]

\* the process starts against a contract that was seeded with one update (or
\* with none), the seeding transaction having recorded its parent's timestamp
Init ==
    /\ head \in { InitHead, InitHead + 1 }
    /\ \/ /\ events = {}
          /\ recorded = {}
       \/ \E e \in SeedBlocks :
            /\ e <= head
            /\ events = {e}
            /\ recorded = {Timestamp(e - 1)}
    /\ block_interval \in Intervals
    /\ pc = "start"
    /\ ProcessInit
    /\ peer = Instance("off")

Next ==
    \/ \E ok \in BOOLEAN : Start(ok)
    \/ \E ok \in BOOLEAN : LocHead(ok)
    \/ LocGuard
    \/ \E ok \in BOOLEAN : LocQuery(ok)
    \/ Located
    \/ \E ok \in BOOLEAN : ReadHead(ok)
    \/ \E res \in { "block", "none", "error" } : GetBlock(res)
    \/ \E ok \in BOOLEAN : Lookup(ok)
    \/ \E ok \in BOOLEAN : Send(ok)
    \/ \E res \in { "mined", "dropped", "error" } : Confirm(res)
    \/ Sleep
    \/ HeadAdvance

Spec == Init /\ [][Next]_vars

-----------------------------------------------------------------------------
(* One call of get_latest_block_in_contract on a given chain *)

\* the lowest head from which the search can walk MAX_DISTANCE_TO_FILL blocks
\* back in whole chunks with curr_block staying at MAX_DISTANCE_TO_FILL or above
DeepHead == MAX_DISTANCE_TO_FILL + CHUNK * (MAX_DISTANCE_TO_FILL \div CHUNK)

\* the heads of the searched chains: below, at and above the search distance,
\* and below, at and above the depth the search needs to walk it in chunks
LocHeads == { 100, MAX_DISTANCE_TO_FILL - 1, MAX_DISTANCE_TO_FILL,
              MAX_DISTANCE_TO_FILL + CHUNK, DeepHead - 1, DeepHead, 20000 }

\* how far below the head the update events of the log source lie
LogDepths == { 0, 1, CHUNK - 1, CHUNK, CHUNK + 1, 2 * CHUNK,
               MAX_DISTANCE_TO_FILL - CHUNK + 300,
               MAX_DISTANCE_TO_FILL - 1, MAX_DISTANCE_TO_FILL,
               MAX_DISTANCE_TO_FILL + 1, 10000 }

LogBlocks(h) == { h - d : d \in { x \in LogDepths : x <= h } }

LocInit ==
    /\ head \in LocHeads
    /\ events \in { S \in SUBSET LogBlocks(head) : Cardinality(S) <= MaxLogs }
    /\ recorded = {}
    /\ block_interval = 1
    /\ pc = "loc_head"
    /\ ProcessInit
    /\ peer = Instance("off")

LocNext ==
    \/ \E ok \in BOOLEAN : LocHead(ok)
    \/ LocGuard
    \/ \E ok \in BOOLEAN : LocQuery(ok)

LocSpec == LocInit /\ [][LocNext]_vars

-----------------------------------------------------------------------------
(* Properties of the reconciliation cycle *)

\* the cycle has made its decision of line 106 and has not yet ended
Decided == pc \in { "get_block", "lookup", "send", "confirm", "sleep" }

\* C1: in every cycle at most one add_timestamp(...).send() call is issued,
\* and it is issued exactly when the candidate was eligible and the
\* timestamp_to_block_root lookup of this cycle returned the zero root; a
\* non-zero root means no send in the cycle.
SendIffZeroRoot ==
    /\ sent <= 1
    /\ (sent = 1) <=> ( /\ eligible
                        /\ "read" \in did
                        /\ interval_beacon_block_root = 0
                        /\ pc # "send" )
    /\ interval_beacon_block_root \notin { Unset, 0 } => sent = 0 /\ pc # "confirm"

\* a cycle that follows a mined submission is skipped by the non-zero root
SkippedAfterSubmission ==
    /\ pc = "sleep"
    /\ Len(sends) = 1
    /\ sends[1].status = "mined"
    /\ eligible
    /\ interval_beacon_block_root \notin { Unset, 0 }
    /\ sent = 0

\* C2: once addTimestamp(T) has been mined, no later transaction is sent for
\* T: a later cycle whose candidate has timestamp T is skipped.
NoSecondSendOfMined ==
    /\ \A i, j \in DOMAIN sends :
          (i < j /\ sends[i].status = "mined") => sends[j].ts # sends[i].ts
    /\ \A i \in DOMAIN sends :
          ( /\ sends[i].status = "mined"
            /\ Decided
            /\ "read" \in did
            /\ pc # "lookup"
            /\ interval_block_timestamp = sends[i].ts
            /\ i < Len(sends) \/ sent = 0 )
          => (sent = 0 /\ pc = "sleep")

\* a later cycle arrives at the candidate of a mined submission and sleeps
SameCandidateSkipped ==
    /\ pc = "sleep"
    /\ sent = 0
    /\ "read" \in did
    /\ \E i \in DOMAIN sends :
          /\ sends[i].status = "mined"
          /\ sends[i].ts = interval_block_timestamp
          /\ sends[i].nb = contract_curr_block + block_interval

\* C3: for every checkpoint, interval and head a cycle fetches the candidate
\* block exactly when checkpoint + interval < head - 5 (the sum taken as a
\* number, so never with an interval of 2^63 or more); otherwise it goes to
\* sleep having fetched no block, read no root and sent nothing.  With
\* checkpoint 1000 and interval 500 the head 1505 is skipped, 1506 is eligible.
EligibilityRule ==
    /\ Decided =>
          /\ eligible <=>
                ( /\ ~Wide(block_interval)
                  /\ contract_curr_block + block_interval
                        < latest_block - SAFETY_MARGIN )
          /\ ~eligible => (did = {} /\ sent = 0 /\ pc = "sleep")
          /\ eligible => "fetch" \in did \/ pc = "get_block"
    /\ did # {} => eligible
    /\ ~(pc = "exited" /\ exit_at = "candidate")
    /\ EligibleOutcomes(1000, 500, 1505) = { "skip" }
    /\ EligibleOutcomes(1000, 500, 1506) = { "eligible" }

-----------------------------------------------------------------------------
(* Properties of the backward search *)

\* the search has returned without a provider error
Searched == pc = "loc_ret" /\ loc_result # "provider_error"

\* the update events within MAX_DISTANCE_TO_FILL blocks of the head
InHorizon == { b \in events : head - MAX_DISTANCE_TO_FILL <= b /\ b <= head }

\* C4: when the log source holds exactly one update event, at a block B with
\* head - 7200 <= B <= head, the search returns B.
SingleEventFound ==
    ( /\ Searched
      /\ Cardinality(events) = 1
      /\ InHorizon = events )
    => (loc_result = "ok" /\ loc_value \in events)

\* C5: when no update event lies in head - 7200 .. head the search ends with
\* the error "Could not find the latest block in the contract", and no window
\* it queries starts below head - 7200.
ExhaustionIsNotFound ==
    /\ (Searched /\ InHorizon = {}) => loc_result = "not_found"
    /\ \A i \in DOMAIN queried : queried[i][1] >= head - MAX_DISTANCE_TO_FILL

\* C8: when the window that ends the search holds several update events, the
\* search returns the highest of their block numbers.
MostRecentOfWindow ==
    (Searched /\ loc_result = "ok" /\ Len(logs) > 1)
    => \A i \in DOMAIN logs : loc_value >= logs[i]

-----------------------------------------------------------------------------
(* Properties of the scheduler loop *)

\* C6: a failure of the locator (no checkpoint found, a provider error, a
\* panic inside it) ends only the cycle: the process does not terminate on it.
LocatorFailureKeepsRunning == ~(pc = "exited" /\ exit_at = "locate")

\* C7: a failure of the submission (signing, broadcast, confirmation) ends the
\* cycle without a second send and without terminating the process.
SubmissionFailureKeepsRunning ==
    /\ ~(pc = "exited" /\ exit_at \in { "send", "confirm" })
    /\ sent <= 1

\* C10: after a mined submission for candidate block C, the checkpoint the
\* next cycles locate is C.
CheckpointIsLastWritten ==
    ( /\ pc = "main_head"
      /\ Len(sends) > 0
      /\ sends[Len(sends)].status = "mined" )
    => contract_curr_block = sends[Len(sends)].nb

-----------------------------------------------------------------------------
(* Progress, with every call succeeding and the chain growing *)

ProcOk ==
    \/ Start(TRUE)
    \/ LocHead(TRUE)
    \/ LocGuard
    \/ LocQuery(TRUE)
    \/ Located
    \/ ReadHead(TRUE)
    \/ GetBlock("block")
    \/ Lookup(TRUE)
    \/ Send(TRUE)
    \/ Confirm("mined")
    \/ Sleep

LiveNext == ProcOk \/ HeadAdvance

\* the loop of main never stops taking its next step, and the chain keeps
\* growing as far as the model's heads reach
LiveSpec == Init /\ [][LiveNext]_vars /\ WF_vars(ProcOk) /\ SF_vars(HeadAdvance)

\* the newest update event of the contract
Newest == CHOOSE b \in events : \A c \in events : c <= b

\* a cycle that located the newest checkpoint and read this head would pass
\* the test of line 106 in some build and read a zero root at lines 116-122:
\* the candidate, as the u64 sum the code computes, is old enough and its
\* timestamp is not yet recorded
Due ==
    /\ events # {}
    /\ "eligible" \in EligibleOutcomes(Newest, block_interval, head)
    /\ TimestampToBlockRoot(Timestamp(Newest + block_interval)) = 0

\* C9: whenever the next checkpoint is due, the process (unless it has
\* terminated) eventually submits a transaction.
DueLeadsToSubmission == Due ~> (pc = "confirm" \/ pc = "exited")

-----------------------------------------------------------------------------
(* Further properties of the scheduler loop and of the search *)

\* C11: when the candidate block cannot be fetched (the provider returns no
\* block, or an error) the cycle is skipped with no contract read and no
\* transaction, and the process does not terminate.
BlockFetchFailureKeepsRunning ==
    /\ ~(pc = "exited" /\ exit_at = "block")
    /\ exit_at = "block" => ("read" \notin did /\ sent = 0)

\* the window queried i-th by the running search
WindowFrom(i) == queried[i][1]
WindowTo(i) == queried[i][2]

\* C12 as stated: no block lies in two of the windows of one search, and the
\* windows cover a contiguous range that ends at the head.
WindowsDisjoint ==
    /\ \A i, j \in DOMAIN queried : i < j => WindowTo(j) < WindowFrom(i)
    /\ \A i \in DOMAIN queried :
          /\ WindowFrom(i) <= WindowTo(i)
          /\ i = 1 => WindowTo(i) = head
          /\ i > 1 => WindowTo(i) >= WindowFrom(i - 1) - 1

\* C12, amended: the windows of one search skip no block and cover a
\* contiguous range that ends at the head; each window begins at the block
\* where the next one ends, so consecutive windows share exactly that one
\* block and windows further apart share none.
WindowsShareBoundary ==
    \A i \in DOMAIN queried :
       /\ WindowFrom(i) <= WindowTo(i)
       /\ i = 1 => WindowTo(i) = head
       /\ i > 1 => WindowTo(i) = WindowFrom(i - 1)
       /\ i > 1 => WindowFrom(i) < WindowFrom(i - 1)
       /\ \A j \in DOMAIN queried : j > i + 1 => WindowTo(j) < WindowFrom(i)

\* a search that went through three windows
ThreeWindows == pc = "loc_ret" /\ Len(queried) >= 3 /\ loc_result = "ok"

\* C13: the search is a bounded loop: it issues at most the windows that fit
\* in MAX_DISTANCE_TO_FILL blocks, each lower than the one before, and ends by
\* a found event or by its guard becoming false, never by an arithmetic fault.
SearchEndsByGuard ==
    /\ Len(queried) <= MAX_DISTANCE_TO_FILL \div CHUNK + 1
    /\ \A i \in DOMAIN queried : i > 1 => WindowFrom(i) < WindowFrom(i - 1)
    /\ Searched => loc_result \in { "ok", "not_found" }

\* C16: the checkpoint the locator returned is at most the head main reads
\* afterwards, so latest_block - contract_curr_block of the status line does
\* not underflow.
CheckpointAtMostHead ==
    /\ pc = "main_head" => contract_curr_block <= head
    /\ Decided => contract_curr_block <= latest_block
    /\ ~(pc = "exited" /\ exit_at = "status")

\* the status line printed with a gap of one block
GapOfOne ==
    /\ pc = "sleep"
    /\ latest_block - contract_curr_block = 1

\* C17: for every head the subtractions of the search do not underflow: each
\* window satisfies 0 <= from <= to <= head and the search ends with a value
\* or an error value, not a panic.
NoUnderflow ==
    /\ loc_result # "panic"
    /\ ~(pc = "exited" /\ exit_at \in { "margin", "status" })
    /\ \A i \in DOMAIN queried :
          0 <= WindowFrom(i) /\ WindowFrom(i) <= WindowTo(i) /\ WindowTo(i) <= head

\* C15: the blocks whose timestamps the process submits form a strictly
\* increasing sequence, and the checkpoint a cycle uses is never below the
\* checkpoint of the cycle before.
SubmissionsIncrease ==
    /\ \A i, j \in DOMAIN sends : i < j => sends[i].nb < sends[j].nb
    /\ contract_curr_block # 0 => contract_curr_block >= prev_checkpoint

-----------------------------------------------------------------------------
(* Two instances of the program against the same contract, every call
   succeeding.  The second instance is the record peer; it runs the same loop
   as the first, one step for each call that it awaits. *)

\* the variables of the first instance, which a step of the peer leaves alone
PeerFrame ==
    UNCHANGED << block_interval, pc, curr_block, logs, queried, loc_result,
                 loc_value, contract_curr_block, latest_block,
                 interval_block_nb, interval_block_timestamp,
                 interval_beacon_block_root, eligible, did, sent, exit,
                 exit_at, sends, prev_checkpoint >>

\* the peer at position p of a new iteration; its history of sends is kept
PeerAt(p) == [ Instance(p) EXCEPT !.sent = peer.sent ]

\* lines 81-90: the top of the loop, create_aws_signer().await
PeerStart ==
    /\ peer.pc = "start"
    /\ peer' = PeerAt("loc_head")
    /\ UNCHANGED << head, events, recorded >>
    /\ PeerFrame

\* lines 26-30: the locator's get_block_number().await
PeerLocHead ==
    /\ peer.pc = "loc_head"
    /\ peer' = [ peer EXCEPT !.pc = "loc_query", !.curr_block = head ]
    /\ UNCHANGED << head, events, recorded >>
    /\ PeerFrame

\* lines 31-46: the guard and one get_logs(&filter).await with the step back
\* by one chunk; lines 92-95: the unwrap() of the locator's result, which
\* panics on the Err of lines 49-51
PeerLocQuery ==
    /\ peer.pc = "loc_query"
    /\ LET g    == LoopGuard(peer.curr_block)
           from == RangeStart(peer.curr_block)
           ls   == GetLogs(from, peer.curr_block)
           next == U64Sub(peer.curr_block, CHUNK)
       IN  IF g = Panic \/ g = 0 \/ from = Panic
           THEN peer' = [ peer EXCEPT !.pc = "exited" ]
           ELSE IF Len(ls) > 0
           THEN peer' = [ peer EXCEPT !.pc = "main_head",
                                      !.curr_block = 0,
                                      !.contract_curr_block = PickLog(ls) ]
           ELSE IF next = Panic
           THEN peer' = [ peer EXCEPT !.pc = "exited" ]
           ELSE peer' = [ peer EXCEPT !.curr_block = next ]
    /\ UNCHANGED << head, events, recorded >>
    /\ PeerFrame

\* lines 98-111: read the head, print the status line, test the candidate
PeerReadHead ==
    /\ peer.pc = "main_head"
    /\ IF U64Sub(head, peer.contract_curr_block) = Panic
       THEN peer' = [ peer EXCEPT !.pc = "exited", !.latest_block = head ]
       ELSE \E o \in EligibleOutcomes(peer.contract_curr_block,
                                      block_interval, head) :
              peer' = IF o = "panic"
                      THEN [ peer EXCEPT !.pc = "exited",
                                         !.latest_block = head ]
                      ELSE IF o = "eligible"
                      THEN [ peer EXCEPT !.pc = "get_block",
                                         !.latest_block = head,
                                         !.interval_block_nb =
                                              peer.contract_curr_block
                                              + block_interval ]
                      ELSE [ peer EXCEPT !.pc = "sleep",
                                         !.latest_block = head ]
    /\ UNCHANGED << head, events, recorded >>
    /\ PeerFrame

\* lines 114-115: get_block of the candidate
PeerGetBlock ==
    /\ peer.pc = "get_block"
    /\ peer' = [ peer EXCEPT !.pc = "lookup",
                             !.interval_block_timestamp =
                                  Timestamp(peer.interval_block_nb) ]
    /\ UNCHANGED << head, events, recorded >>
    /\ PeerFrame

\* the peer's lookup without the zero test of line 122
PeerLookupAlwaysSends ==
    /\ peer.pc = "lookup"
    /\ peer' = [ peer EXCEPT !.pc = "send",
                             !.interval_beacon_block_root =
                                  TimestampToBlockRoot(
                                      peer.interval_block_timestamp) ]
    /\ UNCHANGED << head, events, recorded >>
    /\ PeerFrame

\* lines 116-122: timestamp_to_block_root and the zero test
PeerLookup ==
    /\ peer.pc = "lookup"
    /\ LET root == TimestampToBlockRoot(peer.interval_block_timestamp)
       IN  peer' = [ peer EXCEPT !.pc = IF root = 0 THEN "send" ELSE "sleep",
                                 !.interval_beacon_block_root = root ]
    /\ UNCHANGED << head, events, recorded >>
    /\ PeerFrame

\* lines 123-126: add_timestamp(...).send()
PeerSend ==
    /\ peer.pc = "send"
    /\ peer' = [ peer EXCEPT !.pc = "confirm",
                             !.sent = @ \cup {peer.interval_block_timestamp} ]
    /\ UNCHANGED << head, events, recorded >>
    /\ PeerFrame

\* lines 127-135: the peer's transaction is mined in the next block
PeerConfirm ==
    /\ peer.pc = "confirm"
    /\ head < MaxHead
    /\ head' = head + 1
    /\ events' = events \cup {head + 1}
    /\ recorded' = recorded \cup {peer.interval_block_timestamp}
    /\ peer' = [ peer EXCEPT !.pc = "sleep" ]
    /\ PeerFrame

\* line 138
PeerSleep ==
    /\ peer.pc = "sleep"
    /\ peer' = [ peer EXCEPT !.pc = "start" ]
    /\ UNCHANGED << head, events, recorded >>
    /\ PeerFrame

PeerStep ==
    \/ PeerStart
    \/ PeerLocHead
    \/ PeerLocQuery
    \/ PeerReadHead
    \/ PeerGetBlock
    \/ PeerLookup
    \/ PeerSend
    \/ PeerConfirm
    \/ PeerSleep

\* both instances start against the seeded contract
TwoInit ==
    /\ head \in { InitHead, InitHead + 1 }
    /\ \/ /\ events = {}
          /\ recorded = {}
       \/ \E e \in SeedBlocks :
            /\ e <= head
            /\ events = {e}
            /\ recorded = {Timestamp(e - 1)}
    /\ block_interval \in Intervals
    /\ pc = "start"
    /\ ProcessInit
    /\ peer = Instance("start")

\* the chain grows between the steps of the two instances, within the first
\* span of heads; beyond it the head moves by the blocks that mine their
\* transactions
ChainGrows == HeadAdvance /\ head' <= InitHead + FineSpan

TwoNext == ProcOk \/ PeerStep \/ ChainGrows

TwoSpec == TwoInit /\ [][TwoNext]_vars

\* C14 as stated: with two instances interleaved in any way, no timestamp is
\* sent by both of them.
AtMostOneSender == \A i \in DOMAIN sends : sends[i].ts \notin peer.sent

\* C14, amended: an instance goes from its lookup to sending addTimestamp
\* only when the timestamp is not recorded at the moment of the lookup, so an
\* instance that looks up a timestamp after the other's transaction for it
\* was mined does not send it.
SendsOnlyUnrecorded ==
    [][ /\ (pc = "lookup" /\ pc' = "send")
            => interval_block_timestamp \notin recorded
        /\ (peer.pc = "lookup" /\ peer'.pc = "send")
            => peer.interval_block_timestamp \notin recorded ]_vars

\* the first instance's transaction for a timestamp was mined, and the peer,
\* whose cycle had chosen the same timestamp, read a non-zero root and sleeps
\* without having sent it
PeerSkippedMined ==
    \E i \in DOMAIN sends :
       /\ sends[i].status = "mined"
       /\ peer.pc = "sleep"
       /\ peer.interval_block_timestamp = sends[i].ts
       /\ peer.interval_beacon_block_root = sends[i].ts
       /\ sends[i].ts \notin peer.sent

=============================================================================
